---- MODULE Spec2Model ----
(***************************************************************************)
(* Model of audio_deduplication.py: the scan of a reference tree and a     *)
(* source tree, the size-then-hash fingerprinting of each tree             *)
(* (process_files), the duplicate resolution of main and the concurrent    *)
(* relocation of the selected paths (move_files_in_parallel / move_file).  *)
(***************************************************************************)
EXTENDS Integers, Sequences, FiniteSets, TLC

VARIABLES
    REFERENCE_FOLDER,  \* configured protected root (a directory path)
    SOURCE_FOLDER,     \* configured root to clean
    DRY_RUN,           \* configured simulation flag
    fs,                \* file system: path key -> [data, id] of each existing file
    fs0,               \* the file system when the run started
    dirs,              \* existing directories
    pc,                \* position of the main thread
    reference_files,   \* main: result of find_audio_files(REFERENCE_FOLDER)
    source_files,      \* main: result of find_audio_files(SOURCE_FOLDER)
    size_map,          \* process_files: size -> paths (insertion-ordered dict)
    hash_map,          \* process_files: digest -> paths (insertion-ordered dict)
    futures,           \* process_files: submitted hash tasks not yet aggregated
    hashed,            \* paths ever submitted to get_file_hash, per tree
    reference_hashes,  \* main: FingerprintIndex of the reference tree
    source_hashes,     \* main: FingerprintIndex of the source tree
    duplicates,        \* main: the DuplicateSet
    workers,           \* move_file invocations, one per submitted path
    errors,            \* error events sent to the logger
    ops,               \* file system mutations performed so far
    faults             \* environment failures injected so far

vars == <<REFERENCE_FOLDER, SOURCE_FOLDER, DRY_RUN, fs, fs0, dirs, pc,
          reference_files, source_files, size_map, hash_map, futures, hashed,
          reference_hashes, source_hashes, duplicates, workers, errors, ops,
          faults>>

(***************************************************************************)
(* Configuration (lines 10-24): user-tunable values.  The byte quantities   *)
(* are scaled down (the shipped values are 64 KB and 10 MB) so that files  *)
(* shorter than, equal to and longer than the hashed prefix all occur, and *)
(* RETRIES is set to 2 (shipped: 3); THREADS and RETRY_DELAY are the       *)
(* shipped values.                                                         *)
(***************************************************************************)
THREADS == 8
BLOCK_SIZE == 1
MAX_HASH_BYTES == 1
RETRIES == 2
RETRY_DELAY == 1
AUDIO_EXTENSIONS == {".mp3", ".flac", ".wav", ".aac", ".ogg", ".aif", ".aiff"}

(***************************************************************************)
(* Bounds of the model.                                                    *)
(***************************************************************************)
MaxLen == 2          \* largest file size, in bytes
MaxPre == 1          \* files left in the output directory by earlier runs
MaxProbeFaults == 1  \* size or hash probes that fail in one run
MaxMoveFaults == 3   \* rename / copy attempts that fail in one run

Min(a, b) == IF a < b THEN a ELSE b

(***************************************************************************)
(* Paths.  A path is [dir, stem, suffix]; Path.name is stem \o suffix.     *)
(***************************************************************************)
Top == <<"top">>
Lib == <<"top", "lib">>
In  == <<"top", "in">>
InD == <<"top", "in", "d">>
OUTPUT_FOLDER == <<"out">>

P(dir, stem, suffix) == [dir |-> dir, stem |-> stem, suffix |-> suffix]

\* Directory listing order of the file system (the order rglob yields).
AllPaths == << P(Lib, "song", ".mp3"),
               P(Lib, "b", ".WAV"),
               P(In, "a", ".wav"),
               P(In, "notes", ".txt"),
               P(InD, "a", ".wav") >>

PathSet == {AllPaths[i] : i \in DOMAIN AllPaths}
AudioPaths == {p \in PathSet : p.suffix # ".txt"}

name(p) == p.stem \o p.suffix
Key(p) == [dir |-> p.dir, name |-> name(p)]
DestKey(n) == [dir |-> OUTPUT_FOLDER, name |-> n]

IsPrefix(s, t) == Len(s) <= Len(t) /\ SubSeq(t, 1, Len(s)) = s
Under(root, p) == IsPrefix(root, p.dir)

\* str.lower() on the suffixes that occur
lower(s) == CASE s = ".WAV" -> ".wav"
              [] s = ".MP3" -> ".mp3"
              [] OTHER -> s

exists(k) == k \in DOMAIN fs

(***************************************************************************)
(* File contents: byte sequences that differ only in their last byte.      *)
(***************************************************************************)
RECURSIVE Zeros(_)
Zeros(n) == IF n = 0 THEN <<>> ELSE Append(Zeros(n - 1), 0)
Contents == {<<>>} \cup {Append(Zeros(n - 1), b) : n \in 1..MaxLen, b \in {0, 1}}

(***************************************************************************)
(* Insertion-ordered dict of lists: a sequence of [k, v] entries.          *)
(***************************************************************************)
Keys(d) == {d[i].k : i \in DOMAIN d}
Get(d, key) == d[CHOOSE i \in DOMAIN d : d[i].k = key].v
SetDefaultAppend(d, key, x) ==
    IF key \in Keys(d)
    THEN [i \in DOMAIN d |->
            IF d[i].k = key THEN [k |-> key, v |-> Append(d[i].v, x)] ELSE d[i]]
    ELSE Append(d, [k |-> key, v |-> <<x>>])

Range(s) == {s[i] : i \in DOMAIN s}

RECURSIVE Flatten(_)
Flatten(ss) == IF ss = <<>> THEN <<>> ELSE Head(ss) \o Flatten(Tail(ss))

(***************************************************************************)
(* get_file_size (lines 49-55): the size, or None when the probe fails.    *)
(* A probe result is [ok, val]; ok = FALSE stands for None.                *)
(***************************************************************************)
get_file_size(p, readable) ==
    IF readable /\ exists(Key(p))
    THEN [ok |-> TRUE, val |-> Len(fs[Key(p)].data)]
    ELSE [ok |-> FALSE, val |-> 0]

(***************************************************************************)
(* get_file_hash (lines 57-77): the digest of what the read loop consumed. *)
(* The digest is taken to be collision free: it is the data it was fed.    *)
(***************************************************************************)
RECURSIVE ReadLoop(_, _, _)
ReadLoop(data, bytes_read, hasher) ==
    IF bytes_read < MAX_HASH_BYTES
    THEN LET n == Min(BLOCK_SIZE, MAX_HASH_BYTES - bytes_read)
             chunk == SubSeq(data, bytes_read + 1, Min(Len(data), bytes_read + n))
         IN  IF chunk = <<>>
             THEN hasher
             ELSE ReadLoop(data, bytes_read + Len(chunk), hasher \o chunk)
    ELSE hasher

hexdigest(hasher) == [md5 |-> hasher]

\* Mutant: the exception is swallowed and the digest of what was read so far
\* (nothing) is returned.
get_file_hash_SwallowsError(p, readable) ==
    IF readable /\ exists(Key(p))
    THEN [ok |-> TRUE, val |-> hexdigest(ReadLoop(fs[Key(p)].data, 0, <<>>))]
    ELSE [ok |-> TRUE, val |-> hexdigest(<<>>)]

get_file_hash(p, readable) ==
    IF readable /\ exists(Key(p))
    THEN [ok |-> TRUE, val |-> hexdigest(ReadLoop(fs[Key(p)].data, 0, <<>>))]
    ELSE [ok |-> FALSE, val |-> hexdigest(<<>>)]

(***************************************************************************)
(* find_audio_files (lines 79-89).                                         *)
(***************************************************************************)
IsAudio(p) == lower(p.suffix) \in AUDIO_EXTENSIONS
Listed(root, p) == exists(Key(p)) /\ Under(root, p) /\ IsAudio(p)
find_audio_files(root) == SelectSeq(AllPaths, LAMBDA p : Listed(root, p))

(***************************************************************************)
(* process_files, step 1 (lines 96-101) and the selection of the files to  *)
(* hash (lines 105-106).                                                   *)
(***************************************************************************)
RECURSIVE SizeLoop(_, _, _)
SizeLoop(files, unreadable, d) ==
    IF files = <<>>
    THEN d
    ELSE LET file == Head(files)
             size == get_file_size(file, file \notin unreadable)
         IN  SizeLoop(Tail(files), unreadable,
                      IF size.ok THEN SetDefaultAppend(d, size.val, file) ELSE d)

\* Mutant: every size group is hashed, singletons included.
HashThreshold_Any(size_group) == Len(size_group) >= 1

HashThreshold(size_group) == Len(size_group) > 1

files_to_hash(d) ==
    Flatten([i \in DOMAIN d |-> IF HashThreshold(d[i].v) THEN d[i].v ELSE <<>>])

(***************************************************************************)
(* main, duplicate identification (lines 218-225).                         *)
(***************************************************************************)
\* Mutant: the reference set is not consulted, the first path is always kept.
Selected_KeepsFirstAlways(reference_set, file_hash, paths) ==
    IF Len(paths) > 1 THEN Tail(paths) ELSE <<>>

\* Mutant: a source-only group is selected whole (paths instead of paths[1:]).
Selected_WholeGroup(reference_set, file_hash, paths) ==
    IF file_hash \in reference_set
    THEN paths
    ELSE IF Len(paths) > 1 THEN paths ELSE <<>>

Selected(reference_set, file_hash, paths) ==
    IF file_hash \in reference_set
    THEN paths
    ELSE IF Len(paths) > 1 THEN Tail(paths) ELSE <<>>

IdentifyDuplicates(ref_hashes, src_hashes) ==
    LET reference_set == Keys(ref_hashes)
    IN  Flatten([i \in DOMAIN src_hashes |->
                    Selected(reference_set, src_hashes[i].k, src_hashes[i].v)])

(***************************************************************************)
(* Initial states: a root configuration, the directories and files that    *)
(* exist, and what earlier runs left in the output directory.              *)
(***************************************************************************)
Disjoint == { <<Lib, In>> }       \* reference and source trees apart
Overlapping == { <<In, In>>,      \* the same directory for both roots
                 <<InD, In>> }    \* reference tree inside the source tree

DirConfigs == { {Top, Lib, In, InD}, {Top, In, InD}, {Top, Lib} }

\* The names earlier runs gave to a file named a.wav: a.wav, a_1.wav, ...
PreName(k) == IF k = 0 THEN "a.wav" ELSE "a_" \o ToString(k) \o ".wav"

NoKey == [dir |-> <<>>, name |-> ""]
NotesKey == Key(P(In, "notes", ".txt"))

InitFiles(population, existing, pre) ==
    [k \in {Key(p) : p \in DOMAIN population}
           \cup (IF In \in existing THEN {NotesKey} ELSE {})
           \cup {DestKey(PreName(j)) : j \in 0..(pre - 1)} |->
        IF k.dir = OUTPUT_FOLDER THEN [data |-> <<1>>, id |-> k]
        ELSE IF k = NotesKey THEN [data |-> <<0>>, id |-> k]
        ELSE [data |-> population[CHOOSE p \in DOMAIN population : Key(p) = k],
              id |-> k]]

NoFaults == [probe |-> 0, move |-> 0]

OutStates == {[out |-> FALSE, pre |-> 0]}
             \cup {[out |-> TRUE, pre |-> n] : n \in 0..MaxPre}

InitWith(rootConfigs, dirConfigs, dryRuns, outStates, contents) ==
    /\ \E rc \in rootConfigs :
          /\ REFERENCE_FOLDER = rc[1]
          /\ SOURCE_FOLDER = rc[2]
    /\ DRY_RUN \in dryRuns
    /\ \E existing \in dirConfigs, o \in outStates :
          /\ dirs = existing \cup (IF o.out THEN {OUTPUT_FOLDER} ELSE {})
          /\ \E present \in SUBSET {p \in AudioPaths : p.dir \in existing} :
                \E population \in [present -> contents] :
                    /\ fs = InitFiles(population, existing, o.pre)
                    /\ fs0 = fs
    /\ pc = "start"
    /\ reference_files = <<>>
    /\ source_files = <<>>
    /\ size_map = <<>>
    /\ hash_map = <<>>
    /\ futures = {}
    /\ hashed = [ref |-> {}, src |-> {}]
    /\ reference_hashes = <<>>
    /\ source_hashes = <<>>
    /\ duplicates = <<>>
    /\ workers = <<>>
    /\ errors = {}
    /\ ops = {}
    /\ faults = NoFaults

\* Overlapping roots are explored with nothing outside the source tree.
Init ==
    \/ InitWith(Disjoint, DirConfigs, BOOLEAN, OutStates, Contents)
    \/ InitWith(Overlapping, {{Top, In, InD}}, BOOLEAN, OutStates, Contents)

\* The detection stages alone are explored over a wider source tree, with
\* the output directory in place.
InPlace == {[out |-> TRUE, pre |-> 0]}
\* Both roots on the same tree: every file with a twin is selected, so the
\* batch holds two paths with the same file name.
InitMoves ==
    InitWith({<<In, In>>}, {{Top, In, InD}}, BOOLEAN, OutStates, Contents)

InitDetect ==
    \/ InitWith(Disjoint, DirConfigs, {FALSE}, InPlace, Contents)
    \/ InitWith({<<In, In>>}, {{Top, In, InD}}, {FALSE}, InPlace, Contents)
    \/ InitWith({<<Lib, Top>>}, {{Top, Lib, In, InD}}, {FALSE}, InPlace, Contents)

(***************************************************************************)
(* main, lines 183-207: validation of the roots, creation of the output    *)
(* directory, discovery of both trees.                                     *)
(***************************************************************************)
Mkdir(d) == [op |-> "mkdir", src |-> NoKey, dst |-> [dir |-> d, name |-> ""],
             clobbered |-> NoKey]

\* logger.error(f"Reference folder/Source folder does not exist ...") (190, 193)
RootError(kind) == [kind |-> kind, tree |-> "none", path |-> NoKey]

Startup_MkdirFirst ==
    /\ pc = "start"
    /\ dirs' = dirs \cup {OUTPUT_FOLDER}
    /\ ops' = IF OUTPUT_FOLDER \in dirs THEN ops
              ELSE ops \cup {Mkdir(OUTPUT_FOLDER)}
    /\ IF REFERENCE_FOLDER \notin dirs
       THEN /\ errors' = errors \cup {RootError("reference_missing")}
            /\ pc' = "done"
            /\ UNCHANGED <<reference_files, source_files>>
       ELSE IF SOURCE_FOLDER \notin dirs
       THEN /\ errors' = errors \cup {RootError("source_missing")}
            /\ pc' = "done"
            /\ UNCHANGED <<reference_files, source_files>>
       ELSE /\ reference_files' = find_audio_files(REFERENCE_FOLDER)
            /\ source_files' = find_audio_files(SOURCE_FOLDER)
            /\ pc' = "sizes_ref"
            /\ UNCHANGED errors
    /\ UNCHANGED <<REFERENCE_FOLDER, SOURCE_FOLDER, DRY_RUN, fs0, fs, size_map,
                   hash_map, futures, hashed, reference_hashes, source_hashes,
                   duplicates, workers, faults>>

Startup ==
    /\ pc = "start"
    /\ IF REFERENCE_FOLDER \notin dirs
       THEN /\ errors' = errors \cup {RootError("reference_missing")}
            /\ pc' = "done"
            /\ UNCHANGED <<dirs, ops, reference_files, source_files>>
       ELSE IF SOURCE_FOLDER \notin dirs
       THEN /\ errors' = errors \cup {RootError("source_missing")}
            /\ pc' = "done"
            /\ UNCHANGED <<dirs, ops, reference_files, source_files>>
       ELSE /\ dirs' = dirs \cup {OUTPUT_FOLDER}
            /\ ops' = IF OUTPUT_FOLDER \in dirs THEN ops
                      ELSE ops \cup {Mkdir(OUTPUT_FOLDER)}
            /\ reference_files' = find_audio_files(REFERENCE_FOLDER)
            /\ source_files' = find_audio_files(SOURCE_FOLDER)
            /\ pc' = "sizes_ref"
            /\ UNCHANGED errors
    /\ UNCHANGED <<REFERENCE_FOLDER, SOURCE_FOLDER, DRY_RUN, fs0, fs, size_map,
                   hash_map, futures, hashed, reference_hashes, source_hashes,
                   duplicates, workers, faults>>

(***************************************************************************)
(* process_files returns (line 118): main binds the tree's index (lines    *)
(* 211, 214) and goes on to the next stage.                                *)
(***************************************************************************)
Return(tree, index) ==
    IF tree = "ref"
    THEN /\ reference_hashes' = index
         /\ pc' = "sizes_src"
         /\ UNCHANGED source_hashes
    ELSE /\ source_hashes' = index
         /\ pc' = "resolve"
         /\ UNCHANGED reference_hashes

(***************************************************************************)
(* process_files, lines 93-110: the size pass over the tree's files and    *)
(* the submission of one hash task per file of a populated size group.     *)
(***************************************************************************)
CollectSizes(tree) ==
    /\ pc = IF tree = "ref" THEN "sizes_ref" ELSE "sizes_src"
    /\ LET files == IF tree = "ref" THEN reference_files ELSE source_files
       IN  \E unreadable \in SUBSET Range(files) :
              /\ faults.probe + Cardinality(unreadable) <= MaxProbeFaults
              /\ faults' = [faults EXCEPT !.probe = @ + Cardinality(unreadable)]
              /\ errors' = errors \cup {[kind |-> "size", tree |-> tree,
                                           path |-> Key(f)] : f \in unreadable}
              /\ LET d == SizeLoop(files, unreadable, <<>>)
                     to_hash == files_to_hash(d)
                 IN  /\ size_map' = d
                     /\ hash_map' = <<>>
                     /\ futures' = Range(to_hash)
                     /\ hashed' = [hashed EXCEPT ![tree] = Range(to_hash)]
                     /\ IF to_hash = <<>>
                        THEN Return(tree, <<>>)
                        ELSE /\ pc' = IF tree = "ref" THEN "hash_ref" ELSE "hash_src"
                             /\ UNCHANGED <<reference_hashes, source_hashes>>
    /\ UNCHANGED <<REFERENCE_FOLDER, SOURCE_FOLDER, DRY_RUN, fs0, fs, dirs,
                   reference_files, source_files, duplicates, workers, ops>>

(***************************************************************************)
(* process_files, lines 111-118: one hash task completes and main          *)
(* aggregates its result.  as_completed yields the futures in the order    *)
(* the workers finish, which is any order.                                 *)
(***************************************************************************)
\* Mutant: process_files returns at the first completed hash task.
HashComplete_ReturnsEarly(tree, file_path) ==
    /\ pc = IF tree = "ref" THEN "hash_ref" ELSE "hash_src"
    /\ file_path \in futures
    /\ \E readable \in BOOLEAN :
          /\ ~readable => faults.probe < MaxProbeFaults
          /\ faults' = IF readable THEN faults
                       ELSE [faults EXCEPT !.probe = @ + 1]
          /\ LET file_hash == get_file_hash(file_path, readable)
                 index == IF file_hash.ok
                          THEN SetDefaultAppend(hash_map, file_hash.val, file_path)
                          ELSE hash_map
             IN  /\ hash_map' = index
                 /\ errors' = IF file_hash.ok THEN errors
                              ELSE errors \cup {[kind |-> "hash", tree |-> tree,
                                                 path |-> Key(file_path)]}
                 /\ futures' = futures \ {file_path}
                 /\ Return(tree, index)
    /\ UNCHANGED <<REFERENCE_FOLDER, SOURCE_FOLDER, DRY_RUN, fs0, fs, dirs,
                   reference_files, source_files, size_map, hashed, duplicates,
                   workers, ops>>

HashComplete(tree, file_path) ==
    /\ pc = IF tree = "ref" THEN "hash_ref" ELSE "hash_src"
    /\ file_path \in futures
    /\ \E readable \in BOOLEAN :
          /\ ~readable => faults.probe < MaxProbeFaults
          /\ faults' = IF readable THEN faults
                       ELSE [faults EXCEPT !.probe = @ + 1]
          /\ LET file_hash == get_file_hash(file_path, readable)
                 index == IF file_hash.ok
                          THEN SetDefaultAppend(hash_map, file_hash.val, file_path)
                          ELSE hash_map
             IN  /\ hash_map' = index
                 /\ errors' = IF file_hash.ok THEN errors
                              ELSE errors \cup {[kind |-> "hash", tree |-> tree,
                                                 path |-> Key(file_path)]}
                 /\ futures' = futures \ {file_path}
                 /\ IF futures' = {}
                    THEN Return(tree, index)
                    ELSE UNCHANGED <<pc, reference_hashes, source_hashes>>
    /\ UNCHANGED <<REFERENCE_FOLDER, SOURCE_FOLDER, DRY_RUN, fs0, fs, dirs,
                   reference_files, source_files, size_map, hashed, duplicates,
                   workers, ops>>

(***************************************************************************)
(* move_file invocations.  A worker record is the frame of one call.       *)
(***************************************************************************)
NewWorker(source) ==
    [source |-> source, pc |-> "queued", dest |-> name(source), counter |-> 1,
     attempt |-> 0, tries |-> 0, outcome |-> "none", delays |-> <<>>,
     seen |-> {}]

(***************************************************************************)
(* main, lines 216-234: the DuplicateSet, and the submission of one        *)
(* move_file task per selected path (lines 170-173).                       *)
(***************************************************************************)
Resolve ==
    /\ pc = "resolve"
    /\ LET dups == IdentifyDuplicates(reference_hashes, source_hashes)
       IN  /\ duplicates' = dups
           /\ workers' = [i \in DOMAIN dups |-> NewWorker(dups[i])]
           /\ pc' = IF dups # <<>> THEN "moving" ELSE "done"
    /\ UNCHANGED <<REFERENCE_FOLDER, SOURCE_FOLDER, DRY_RUN, fs0, fs, dirs,
                   reference_files, source_files, size_map, hash_map, futures,
                   hashed, reference_hashes, source_hashes, errors, ops, faults>>

(***************************************************************************)
(* ThreadPoolExecutor (lines 170-173): tasks start in submission order, at *)
(* most THREADS of them running at a time.                                 *)
(***************************************************************************)
Running == {j \in DOMAIN workers : workers[j].pc \notin {"queued", "done"}}
Startable(i) ==
    /\ workers[i].pc = "queued"
    /\ \A j \in 1..(i - 1) : workers[j].pc # "queued"
    /\ Cardinality(Running) < THREADS

\* Mutant: the suffix runs one ahead of the counter.
with_name_SkipsOne(source, counter) ==
    source.stem \o "_" \o ToString(counter + 1) \o source.suffix

\* dest_path.with_name(f"{stem}_{counter}{suffix}") (lines 132-134)
with_name(source, counter) ==
    source.stem \o "_" \o ToString(counter) \o source.suffix

Finish(w, outcome) == [w EXCEPT !.pc = "done", !.outcome = outcome]

\* The entries of the destination directory.
InOutput(fsys) == {k \in DOMAIN fsys : k.dir = OUTPUT_FOLDER}

\* The frame of worker i at a pass of the collision loop; a call that starts
\* notes the entries the destination directory has at that moment.
Frame(i) ==
    IF workers[i].pc = "queued"
    THEN [workers[i] EXCEPT !.seen = InOutput(fs)]
    ELSE workers[i]

(***************************************************************************)
(* move_file, lines 125-143: one existence check of the collision loop,    *)
(* and, on a free name, the dry-run report or the creation of the          *)
(* destination directory.                                                  *)
(***************************************************************************)
CheckDest(i) ==
    /\ pc = "moving"
    /\ i \in DOMAIN workers
    /\ workers[i].pc = "check" \/ Startable(i)
    /\ LET w == Frame(i)
       IN  IF exists(DestKey(w.dest))
           THEN /\ workers' = [workers EXCEPT ![i] =
                      [w EXCEPT !.pc = "check",
                                !.dest = with_name(w.source, w.counter),
                                !.counter = w.counter + 1]]
                /\ UNCHANGED <<dirs, ops>>
           ELSE IF DRY_RUN
           THEN /\ workers' = [workers EXCEPT ![i] = Finish(w, "dry_run")]
                /\ UNCHANGED <<dirs, ops>>
           ELSE /\ workers' = [workers EXCEPT ![i] = [w EXCEPT !.pc = "rename"]]
                /\ dirs' = dirs \cup {OUTPUT_FOLDER}
                /\ ops' = IF OUTPUT_FOLDER \in dirs THEN ops
                          ELSE ops \cup {Mkdir(OUTPUT_FOLDER)}
    /\ UNCHANGED <<REFERENCE_FOLDER, SOURCE_FOLDER, DRY_RUN, fs0, fs, pc,
                   reference_files, source_files, size_map, hash_map, futures,
                   hashed, reference_hashes, source_hashes, duplicates, errors,
                   faults>>

(***************************************************************************)
(* The file system after the file at src has replaced whatever is at dst.  *)
(***************************************************************************)
Moved(src, dst) ==
    [k \in (DOMAIN fs \ {src}) \cup {dst} |-> IF k = dst THEN fs[src] ELSE fs[k]]
Copied(src, dst) ==
    [k \in DOMAIN fs \cup {dst} |-> IF k = dst THEN fs[src] ELSE fs[k]]
FsOp(op, src, dst) ==
    [op |-> op, src |-> src, dst |-> dst,
     clobbered |-> IF exists(dst) THEN fs[dst].id ELSE NoKey]

\* logger.error(f"Failed to move {source}: ...") (line 166)
MoveError(source) == [kind |-> "move", tree |-> "none", path |-> Key(source)]

MoveFault == faults.move < MaxMoveFaults
CountMoveFault == [faults EXCEPT !.move = @ + 1]

\* One more call of source_path.rename (line 149) by this invocation.
Tried(w) == [w EXCEPT !.tries = @ + 1]

\* delay = RETRY_DELAY * (2 ** attempt) (line 161)
Delay(attempt) == RETRY_DELAY * (2 ^ attempt)

(***************************************************************************)
(* move_file, lines 147-151 and 157-163: one pass of the retry loop.  The  *)
(* rename succeeds, raises OSError (handled by the fallback of lines       *)
(* 152-156) or raises another exception (handled by the retry clause).     *)
(***************************************************************************)
RenameOk(i) ==
    LET w == workers[i]
    IN  /\ exists(Key(w.source))
        /\ fs' = Moved(Key(w.source), DestKey(w.dest))
        /\ ops' = ops \cup {FsOp("rename", Key(w.source), DestKey(w.dest))}
        /\ workers' = [workers EXCEPT ![i] = Finish(Tried(w), "moved")]
        /\ UNCHANGED <<errors, faults>>

RenameOSError(i) ==
    /\ MoveFault
    /\ faults' = CountMoveFault
    /\ workers' = [workers EXCEPT ![i] = [Tried(@) EXCEPT !.pc = "fallback"]]
    /\ UNCHANGED <<fs, ops, errors>>

\* Mutant: the retry clause does not count the attempt.
RenameOtherError_NoCount(i) ==
    LET w == Tried(workers[i])
    IN  /\ MoveFault
        /\ faults' = CountMoveFault
        /\ workers' = [workers EXCEPT ![i] =
               [w EXCEPT !.delays = Append(w.delays, Delay(w.attempt + 1))]]
        /\ UNCHANGED <<fs, ops, errors>>

RenameOtherError(i) ==
    LET w == Tried(workers[i])
        attempt == w.attempt + 1
    IN  /\ MoveFault
        /\ faults' = CountMoveFault
        /\ IF attempt > RETRIES
           THEN /\ workers' = [workers EXCEPT ![i] =
                      Finish([w EXCEPT !.attempt = attempt], "failed")]
                /\ errors' = errors \cup {MoveError(w.source)}
           ELSE /\ workers' = [workers EXCEPT ![i] =
                      [w EXCEPT !.attempt = attempt,
                                !.delays = Append(w.delays, Delay(attempt))]]
                /\ UNCHANGED errors
        /\ UNCHANGED <<fs, ops>>

Rename(i) ==
    /\ pc = "moving"
    /\ i \in DOMAIN workers
    /\ workers[i].pc = "rename"
    /\ workers[i].attempt <= RETRIES
    /\ \/ RenameOk(i)
       \/ RenameOSError(i)
       \/ RenameOtherError(i)
    /\ UNCHANGED <<REFERENCE_FOLDER, SOURCE_FOLDER, DRY_RUN, fs0, dirs, pc,
                   reference_files, source_files, size_map, hash_map, futures,
                   hashed, reference_hashes, source_hashes, duplicates>>

(***************************************************************************)
(* move_file, lines 152-156 and 165-166: shutil.move inside the OSError    *)
(* handler.  It moves the file (copy, then delete), or raises, before the  *)
(* copy or between the copy and the delete; an exception raised inside an  *)
(* except clause is not caught by the sibling clause of line 157, it       *)
(* reaches the handler of line 165.                                        *)
(***************************************************************************)
FallbackOk_LeavesSource(i) ==
    LET w == workers[i]
    IN  /\ exists(Key(w.source))
        /\ fs' = Copied(Key(w.source), DestKey(w.dest))
        /\ ops' = ops \cup {FsOp("copy", Key(w.source), DestKey(w.dest))}
        /\ workers' = [workers EXCEPT ![i] = Finish(w, "moved_cross_fs")]
        /\ UNCHANGED <<errors, faults>>

FallbackOk(i) ==
    LET w == workers[i]
    IN  /\ exists(Key(w.source))
        /\ fs' = Moved(Key(w.source), DestKey(w.dest))
        /\ ops' = ops \cup {FsOp("copy", Key(w.source), DestKey(w.dest)),
                            [op |-> "delete", src |-> Key(w.source),
                             dst |-> NoKey, clobbered |-> NoKey]}
        /\ workers' = [workers EXCEPT ![i] = Finish(w, "moved_cross_fs")]
        /\ UNCHANGED <<errors, faults>>

FallbackFails(i) ==
    LET w == workers[i]
    IN  /\ MoveFault
        /\ faults' = CountMoveFault
        /\ workers' = [workers EXCEPT ![i] = Finish(w, "failed")]
        /\ errors' = errors \cup {MoveError(w.source)}
        /\ UNCHANGED <<fs, ops>>

FallbackFailsAfterCopy(i) ==
    LET w == workers[i]
    IN  /\ MoveFault
        /\ exists(Key(w.source))
        /\ faults' = CountMoveFault
        /\ fs' = Copied(Key(w.source), DestKey(w.dest))
        /\ ops' = ops \cup {FsOp("copy", Key(w.source), DestKey(w.dest))}
        /\ workers' = [workers EXCEPT ![i] = Finish(w, "failed")]
        /\ errors' = errors \cup {MoveError(w.source)}

Fallback(i) ==
    /\ pc = "moving"
    /\ i \in DOMAIN workers
    /\ workers[i].pc = "fallback"
    /\ \/ FallbackOk(i)
       \/ FallbackFails(i)
       \/ FallbackFailsAfterCopy(i)
    /\ UNCHANGED <<REFERENCE_FOLDER, SOURCE_FOLDER, DRY_RUN, fs0, dirs, pc,
                   reference_files, source_files, size_map, hash_map, futures,
                   hashed, reference_hashes, source_hashes, duplicates>>

(***************************************************************************)
(* move_files_in_parallel, lines 176-181, and the end of main (line 236):  *)
(* every future has been drained.                                          *)
(***************************************************************************)
MovesDone ==
    /\ pc = "moving"
    /\ \A i \in DOMAIN workers : workers[i].pc = "done"
    /\ pc' = "done"
    /\ UNCHANGED <<REFERENCE_FOLDER, SOURCE_FOLDER, DRY_RUN, fs0, fs, dirs,
                   reference_files, source_files, size_map, hash_map, futures,
                   hashed, reference_hashes, source_hashes, duplicates, workers,
                   errors, ops, faults>>

Trees == {"ref", "src"}
Slots == 1..Len(AllPaths)

NextDetect ==
    \/ Startup
    \/ \E tree \in Trees : CollectSizes(tree)
    \/ \E tree \in Trees : \E f \in futures : HashComplete(tree, f)
    \/ Resolve

NextMove ==
    \/ \E i \in Slots : CheckDest(i)
    \/ \E i \in Slots : Rename(i)
    \/ \E i \in Slots : Fallback(i)
    \/ MovesDone

Next == NextDetect \/ NextMove

Spec == Init /\ [][Next]_vars
SpecDetect == InitDetect /\ [][NextDetect]_vars

\* The interpreter and the pool's threads keep running: main is not suspended
\* for ever and a submitted task is eventually executed (lines 170-181).
FairSpec == InitMoves /\ [][Next]_vars /\ WF_vars(Next)

(***************************************************************************)
(* Vocabulary of the properties.                                           *)
(***************************************************************************)
Resolved == pc \in {"moving", "done"}
DuplicateSet == Range(duplicates)
SizeOf(p) == Len(fs0[Key(p)].data)
PrefixOf(p) ==
    SubSeq(fs0[Key(p)].data, 1, Min(SizeOf(p), MAX_HASH_BYTES))
InReferenceTree(k) == k # NoKey /\ IsPrefix(REFERENCE_FOLDER, k.dir)
DisjointRoots == ~IsPrefix(REFERENCE_FOLDER, SOURCE_FOLDER)
                 /\ ~IsPrefix(SOURCE_FOLDER, REFERENCE_FOLDER)
Position(seq, x) == CHOOSE i \in DOMAIN seq : seq[i] = x
FirstDiscovered(files, group) ==
    CHOOSE p \in Range(group) :
        \A q \in Range(group) : Position(files, p) <= Position(files, q)
SourceOnly(e) == e.k \notin Keys(reference_hashes)
Entries(d) == Range(d)

\* The name the collision loop of move_file (lines 126-135) settles on when
\* nothing else writes to the destination directory while it runs.
RECURSIVE FreeName(_, _, _, _)
FreeName(fsys, source, dest, counter) ==
    IF DestKey(dest) \in DOMAIN fsys
    THEN FreeName(fsys, source, with_name(source, counter), counter + 1)
    ELSE dest
ChosenName(fsys, source) == FreeName(fsys, source, name(source), 1)

\* C1: after the resolver has run on disjoint trees with every probe
\* succeeding, every source file that has the size and the hashed prefix of
\* some reference file is in the DuplicateSet.
C1_SameContentSelected ==
    (Resolved /\ DisjointRoots /\ faults.probe = 0) =>
        \A s \in Range(source_files), r \in Range(reference_files) :
            (SizeOf(s) = SizeOf(r) /\ PrefixOf(s) = PrefixOf(r))
                => s \in DuplicateSet

\* C2: relocation never overwrites a file (no rename or copy lands on an
\* existing destination) and never loses one (every file of the initial
\* file system is still somewhere).
C2_NoFileLostOrOverwritten ==
    /\ \A o \in ops : o.clobbered = NoKey
    /\ \A k \in DOMAIN fs0 : \E j \in DOMAIN fs : fs[j].id = fs0[k].id

\* C3: for a fingerprint held by the source index only, with two or more
\* paths, the path discovered first by the scan is the one not selected.
C3_FirstDiscoveredRetained ==
    Resolved =>
        \A e \in Entries(source_hashes) :
            (SourceOnly(e) /\ Len(e.v) >= 2)
                => FirstDiscovered(source_files, e.v) \notin DuplicateSet

\* C4: files of different sizes never share a fingerprint group of an index
\* built by process_files, and a source file is never matched with a
\* reference file of another size.
C4_GroupsAreSizeHomogeneous ==
    /\ \A d \in {hash_map, reference_hashes, source_hashes} :
          \A e \in Entries(d) :
              \A a \in Range(e.v), b \in Range(e.v) : SizeOf(a) = SizeOf(b)
    /\ \A e \in Entries(source_hashes) :
          ~SourceOnly(e) =>
              \A a \in Range(e.v), b \in Range(Get(reference_hashes, e.k)) :
                  SizeOf(a) = SizeOf(b)

\* C5: whatever roots passed the start-up validation, no path of the
\* reference tree is in the DuplicateSet and no rename, copy or delete acts
\* on a file of the reference tree.
C5_ReferenceNeverTouched ==
    /\ \A p \in DuplicateSet : ~Under(REFERENCE_FOLDER, p)
    /\ \A o \in ops : ~InReferenceTree(o.src)

\* C6: once the resolver has run, every source path listed under a
\* fingerprint that is a key of both indexes is in the DuplicateSet.
C6_SharedFingerprintAllSelected ==
    Resolved =>
        \A e \in Entries(source_hashes) :
            ~SourceOnly(e) => Range(e.v) \subseteq DuplicateSet

\* C6 witness: the resolver has run on a source fingerprint with two paths
\* that is also a key of the reference index.
C6_Witness ==
    /\ Resolved
    /\ DisjointRoots
    /\ \E e \in Entries(source_hashes) : ~SourceOnly(e) /\ Len(e.v) >= 2

\* C7: once the resolver has run, a fingerprint held by the source index
\* only, with N paths, has exactly N-1 of them in the DuplicateSet when
\* N >= 2 and none when N = 1.
C7_SourceOnlyAllButOne ==
    Resolved =>
        \A e \in Entries(source_hashes) :
            SourceOnly(e) =>
                Cardinality(Range(e.v) \cap DuplicateSet) =
                    (IF Len(e.v) >= 2 THEN Len(e.v) - 1 ELSE 0)

\* C7 witness: the resolver has run on a source index holding a source-only
\* fingerprint with three paths and another with a single path.
C7_Witness ==
    /\ Resolved
    /\ \E e \in Entries(source_hashes) : SourceOnly(e) /\ Len(e.v) = 3
    /\ \E e \in Entries(source_hashes) : SourceOnly(e) /\ Len(e.v) = 1

\* C8: a run with DRY_RUN set performs no file system mutation: no rename,
\* copy or delete, and no directory creation.
C8_DryRunMutatesNothing ==
    DRY_RUN => (ops = {} /\ fs = fs0)

\* C9: the (source, destination) pairs of a completed run in which no move
\* failed are the pairs a dry-run pass reports on the same inputs, namely
\* each selected path with the name the collision loop picks in the initial
\* destination directory.
DryRunPairs == {<<Key(p), ChosenName(fs0, p)>> : p \in DuplicateSet}
ReportedPairs ==
    {<<Key(workers[i].source), workers[i].dest>> : i \in DOMAIN workers}
C9_DryRunMirrorsRealRun ==
    (pc = "done" /\ ~DRY_RUN /\ faults.move = 0) => ReportedPairs = DryRunPairs

\* What a dry-run pass reports (the reference point of C9).
DryRunReportsChosenNames ==
    (pc = "done" /\ DRY_RUN) => ReportedPairs = DryRunPairs

\* C10: a path is reported as failed only after its attempts have been used
\* up (attempt > RETRIES).
C10_FailedOnlyAfterRetries ==
    \A i \in DOMAIN workers :
        workers[i].outcome = "failed" => workers[i].attempt > RETRIES

\* C11: the delay before the k-th retry of a move is RETRY_DELAY * 2^(k-1):
\* the first retry waits the base delay, each later one twice the previous.
C11_BackoffStartsAtBaseDelay ==
    \A i \in DOMAIN workers :
        \A k \in DOMAIN workers[i].delays :
            workers[i].delays[k] = RETRY_DELAY * (2 ^ (k - 1))

\* C12: when the rename fails with an OS error and the copy-then-delete
\* fallback succeeds, the path's outcome is a success: no failure is reported
\* for it, the source's file is at the chosen destination when the fallback
\* completes, a file remains there, and the source path no longer exists.
C12_FallbackSuccessIsSuccess ==
    /\ [](\A i \in DOMAIN workers :
            workers[i].outcome = "moved_cross_fs" =>
                /\ MoveError(workers[i].source) \notin errors
                /\ Key(workers[i].source) \notin DOMAIN fs
                /\ DestKey(workers[i].dest) \in DOMAIN fs)
    /\ [][\A i \in DOMAIN workers :
            (workers[i].pc = "fallback" /\ workers'[i].outcome = "moved_cross_fs") =>
                /\ fs'[DestKey(workers[i].dest)] = fs[Key(workers[i].source)]
                /\ workers'[i].pc = "done"
                /\ errors' = errors]_vars

C12_Witness ==
    \E i \in DOMAIN workers :
        /\ workers[i].outcome = "moved_cross_fs"
        /\ workers[i].tries = 1
        /\ DestKey(workers[i].dest) \in DOMAIN fs

\* Where the file of a worker's path is: at the destination once the worker
\* moved it, at the source path otherwise.
LocOf(w) == IF w.outcome \in {"moved", "moved_cross_fs"}
            THEN DestKey(w.dest) ELSE Key(w.source)

\* Every path of the batch is attempted and gets an outcome of its own,
\* whichever paths fail (auxiliary to C13).
EveryPathGetsItsOutcome ==
    /\ Resolved => /\ Len(workers) = Len(duplicates)
                   /\ \A i \in DOMAIN workers : workers[i].source = duplicates[i]
    /\ pc = "done" => \A i \in DOMAIN workers : workers[i].outcome # "none"

\* C13: per-path independence.  Whatever subset of the batch fails, every
\* other path is still attempted and gets its own outcome, and the step in
\* which one path fails changes neither another path's progress nor another
\* path's file.
C13_PerPathIndependence ==
    /\ []EveryPathGetsItsOutcome
    /\ [][\A i \in DOMAIN workers :
            (workers[i].outcome # "failed" /\ workers'[i].outcome = "failed") =>
                \A j \in DOMAIN workers \ {i} :
                    /\ workers'[j] = workers[j]
                    /\ LocOf(workers[j]) \in DOMAIN fs =>
                           /\ LocOf(workers[j]) \in DOMAIN fs'
                           /\ fs'[LocOf(workers[j])] = fs[LocOf(workers[j])]]_vars

RootMissing == REFERENCE_FOLDER \notin dirs \/ SOURCE_FOLDER \notin dirs

\* C14: if the reference root or the source root does not exist at startup,
\* main reports the missing root and returns before any mutation: the output
\* directory is not created, no file is scanned, hashed or moved.
C14_MissingRootAbortsBeforeMutation ==
    RootMissing =>
        /\ pc \in {"start", "done"}
        /\ ops = {} /\ fs = fs0
        /\ reference_files = <<>> /\ source_files = <<>>
        /\ size_map = <<>> /\ futures = {}
        /\ hashed = [ref |-> {}, src |-> {}]
        /\ duplicates = <<>> /\ workers = <<>>
        /\ pc = "done" =>
               errors = {RootError(IF REFERENCE_FOLDER \notin dirs
                                   THEN "reference_missing"
                                   ELSE "source_missing")}

C14_Witness ==
    /\ pc = "done"
    /\ SOURCE_FOLDER \notin dirs
    /\ OUTPUT_FOLDER \notin dirs
    /\ errors = {RootError("source_missing")}

ProbeErrors(tree) ==
    {e \in errors : e.kind \in {"size", "hash"} /\ e.tree = tree}
IndexOf(tree) == IF tree = "ref" THEN reference_hashes ELSE source_hashes
FilesOf(tree) == IF tree = "ref" THEN reference_files ELSE source_files
Returned(tree) ==
    IF tree = "ref" THEN pc \notin {"start", "sizes_ref", "hash_ref"}
    ELSE pc \in {"resolve", "moving", "done"}
Hashing(tree) == pc = (IF tree = "ref" THEN "hash_ref" ELSE "hash_src")
Grouped(d) == UNION {Range(e.v) : e \in Entries(d)}
Failed(tree, kind, p) ==
    [kind |-> kind, tree |-> tree, path |-> Key(p)] \in errors

\* C15: a file whose size cannot be read or whose hash cannot be computed
\* during the pass over a tree is reported as an error and never appears in
\* that tree's FingerprintIndex, nor, for the source tree, in the
\* DuplicateSet; every remaining file is still sized and hashed, and the
\* pass never waits on an empty set of hash tasks.
C15_UnreadableFileReportedAndExcluded ==
    /\ Cardinality(ProbeErrors("ref") \cup ProbeErrors("src")) = faults.probe
    /\ \A tree \in {"ref", "src"} : \A e \in ProbeErrors(tree) :
          /\ \A p \in Grouped(IndexOf(tree)) : Key(p) # e.path
          /\ Hashing(tree) => \A p \in Grouped(hash_map) : Key(p) # e.path
          /\ tree = "src" => \A p \in DuplicateSet : Key(p) # e.path
    /\ \A tree \in {"ref", "src"} :
          /\ Hashing(tree) =>
                \A f \in Range(FilesOf(tree)) :
                    Failed(tree, "size", f) \/ f \in Grouped(size_map)
          /\ Returned(tree) =>
                \A f \in hashed[tree] :
                    Failed(tree, "hash", f) \/ f \in Grouped(IndexOf(tree))
    /\ \A tree \in {"ref", "src"} :
          Hashing(tree) => futures # {} /\ futures \subseteq hashed[tree]

C15_Witness ==
    /\ Resolved
    /\ \E f \in Range(source_files) :
          /\ Failed("src", "hash", f) \/ Failed("src", "size", f)
          /\ \E g \in DuplicateSet : fs0[Key(g)].data = fs0[Key(f)].data

Fingerprint(p) == hexdigest(ReadLoop(fs0[Key(p)].data, 0, <<>>))
Discovered == Range(reference_files) \cup Range(source_files)

\* C16: content preservation by the resolver.  Under disjoint roots, for
\* every source path placed in the DuplicateSet there is a discovered file
\* outside the DuplicateSet (a reference file or the retained source file)
\* with the same byte size and the same fingerprint as the selected path.
C16_SelectedHasRetainedTwin ==
    (Resolved /\ DisjointRoots) =>
        \A p \in DuplicateSet :
            \E q \in Discovered \ DuplicateSet :
                /\ SizeOf(q) = SizeOf(p)
                /\ Fingerprint(q) = Fingerprint(p)

SameTreeSameSize(tree, f) ==
    {g \in Range(FilesOf(tree)) : SizeOf(g) = SizeOf(f)}

\* C17: a file is submitted for hashing only if its size bucket within the
\* same tree has 2 or more members; a file whose size is unique in its tree
\* is never hashed and never appears in that tree's FingerprintIndex.
C17_OnlyPopulatedBucketsHashed ==
    \A tree \in {"ref", "src"} :
        /\ \A f \in hashed[tree] :
              /\ f \in Range(FilesOf(tree))
              /\ Cardinality(SameTreeSameSize(tree, f)) >= 2
        /\ Grouped(IndexOf(tree)) \subseteq hashed[tree]
        /\ Hashing(tree) =>
              /\ futures \subseteq hashed[tree]
              /\ Grouped(hash_map) \subseteq hashed[tree]

C17_Witness ==
    /\ Resolved
    /\ hashed["src"] # {}
    /\ \E f \in Range(source_files) :
          /\ Cardinality(SameTreeSameSize("src", f)) = 1
          /\ f \notin hashed["src"]
          /\ f \notin Grouped(source_hashes)

Terminal == {"moved", "moved_cross_fs", "dry_run", "failed"}
\* C18: every move_file invocation terminates with a terminal outcome.  The
\* collision loop increments its counter at most once per file present in
\* the destination directory, the retry loop calls rename at most
\* RETRIES + 1 times, and move_files_in_parallel eventually finishes with
\* every path of the batch processed.
C18_EveryMoveTerminates ==
    /\ [](\A i \in DOMAIN workers :
            /\ workers[i].tries <= RETRIES + 1
            /\ workers[i].counter - 1 <= Cardinality(InOutput(fs))
            /\ workers[i].pc = "done" <=> workers[i].outcome \in Terminal)
    /\ [](pc = "done" => \A i \in DOMAIN workers : workers[i].pc = "done")
    /\ (pc = "moving") ~> (pc = "done")

C18_Witness ==
    /\ pc = "done"
    /\ \E i \in DOMAIN workers :
          workers[i].outcome = "failed" /\ workers[i].tries = RETRIES + 1
    /\ \E i \in DOMAIN workers :
          workers[i].outcome = "moved" /\ workers[i].counter > 1

\* The name the claim gives: stem.ext if free, else stem_k.ext for the
\* smallest k >= 1 whose name is free.
Suffixed(source, k) == source.stem \o "_" \o ToString(k) \o source.suffix
IsFree(fsys, n) == DestKey(n) \notin DOMAIN fsys
LowestFree(fsys, source) ==
    IF IsFree(fsys, name(source)) THEN name(source)
    ELSE Suffixed(source,
             CHOOSE k \in 1..(Cardinality(DOMAIN fsys) + 1) :
                 /\ IsFree(fsys, Suffixed(source, k))
                 /\ \A j \in 1..(k - 1) : ~IsFree(fsys, Suffixed(source, j)))

\* Worker i leaves the collision loop in this step.
Chooses(i) == /\ workers[i].pc \in {"queued", "check"}
              /\ workers'[i].pc \in {"rename", "done"}

\* C19: collision naming.  The name the loop settles on does not exist at
\* the moment it is chosen, and when nothing was written to the destination
\* directory since the call started it is stem.ext if that name is free,
\* otherwise stem_k.ext for the smallest k >= 1 that is free.
C19_LowestFreeNameChosen ==
    [][\A i \in DOMAIN workers :
          Chooses(i) =>
              /\ IsFree(fs, workers'[i].dest)
              /\ InOutput(fs) = workers'[i].seen =>
                     workers'[i].dest = LowestFree(fs, workers[i].source)]_vars

C19_Witness ==
    \E i \in DOMAIN workers :
        /\ workers[i].pc = "rename"
        /\ workers[i].seen = InOutput(fs)
        /\ workers[i].dest = Suffixed(workers[i].source, 2)
        /\ ~IsFree(fs, Suffixed(workers[i].source, 1))

Relocations == {o \in ops : o.op # "mkdir"}

\* C20: stage ordering.  No relocation begins until both FingerprintIndexes
\* are completely built and the DuplicateSet is fully computed; when
\* process_files returns every hash task it submitted has completed and been
\* aggregated; no task of one stage is still running when the next starts.
C20_StagesDoNotOverlap ==
    /\ [](/\ (~Hashing("ref") /\ ~Hashing("src")) => futures = {}
          /\ \A tree \in Trees :
                /\ Hashing(tree) =>
                      /\ futures \subseteq hashed[tree]
                      /\ workers = <<>> /\ duplicates = <<>>
                /\ Returned(tree) =>
                      \A f \in hashed[tree] :
                          Failed(tree, "hash", f) \/ f \in Grouped(IndexOf(tree))
          /\ (workers # <<>> \/ Relocations # {}) =>
                /\ Resolved /\ Returned("ref") /\ Returned("src")
                /\ duplicates = IdentifyDuplicates(reference_hashes, source_hashes)
                /\ Len(workers) = Len(duplicates)
          /\ pc = "done" => \A i \in DOMAIN workers : workers[i].pc = "done")
    /\ [][Resolved =>
            UNCHANGED <<reference_hashes, source_hashes, duplicates>>]_vars

C20_Witness ==
    /\ pc = "moving"
    /\ hashed["ref"] # {} /\ hashed["src"] # {}
    /\ reference_hashes # <<>> /\ source_hashes # <<>>
    /\ \E o \in Relocations : o.op = "rename"
    /\ \E i \in DOMAIN workers : workers[i].pc = "queued" \/ workers[i].pc = "check"

====
